---- MODULE Spec2Model ----
(***************************************************************************)
(* XPayr: the USDC dispatch-planning reducer (GenericUSDCAnalyzer.lzReduce) *)
(* and the CCTP bridge execution pipeline (CircleService.bridge,            *)
(* CircleWalletService.bridgeUSDC, IntegratedXPayrService.executeDispatch). *)
(***************************************************************************)
EXTENDS Integers, Sequences, FiniteSets, TLC

(***************************************************************************)
(* Bounds of the model.                                                    *)
(***************************************************************************)
MaxChains == 3
MaxBalance == 1
MaxThreshold == 2
MaxAmount == 4
MaxPolls == 61

(***************************************************************************)
(* Part 1.  GenericUSDCAnalyzer.lzReduce                                   *)
(*                                                                         *)
(* Amounts are uint256 in the contract; Solidity 0.8 arithmetic is checked, *)
(* so an overflow reverts and no plan is returned.  The values explored     *)
(* here are far below 2^256, the only revert in range is the division by n  *)
(* when no response is given.                                               *)
(***************************************************************************)
VARIABLES responses, plan, lzState

allocVars == <<responses, plan, lzState>>

\* struct BalanceData { balance; minThreshold; usdcAmount }
BalanceData == [balance : 0..MaxBalance, minThreshold : 0..MaxThreshold,
                usdcAmount : 0..MaxAmount]

RECURSIVE SumSeq(_)
SumSeq(s) == IF s = <<>> THEN 0 ELSE Head(s) + SumSeq(Tail(s))

\* balances[i] < minThresholds[i]
under(r) == r.balance < r.minThreshold

\* minThresholds[i] - balances[i], taken only when under threshold
deficitOf(r) == IF under(r) THEN r.minThreshold - r.balance ELSE 0

\* the decode loop: underThresholdCount
underThresholdCount(rs) == Cardinality({i \in 1..Len(rs) : under(rs[i])})

\* the decode loop: totalDeficit
totalDeficit(rs) == SumSeq([i \in 1..Len(rs) |-> deficitOf(rs[i])])

\* the decode loop assigns usdcAmount on every iteration: the value left
\* after the loop is the one of the last response (0 when there is none)
usdcAmountOf(rs) == IF rs = <<>> THEN 0 ELSE rs[Len(rs)].usdcAmount

\* plan[i] = amountPerChain, plus one for i < remainder (0-based index)
EqualSplitLast(amount, n) ==
    [i \in 1..n |-> (amount \div n) + (IF i > n - (amount % n) THEN 1 ELSE 0)]
EqualSplit(amount, n) ==
    [i \in 1..n |-> (amount \div n) + (IF (i - 1) < (amount % n) THEN 1 ELSE 0)]

\* underThresholdCount == 1: everything to the chain under threshold
SingleRouteCapped(rs, amount) ==
    [i \in 1..Len(rs) |->
        IF under(rs[i])
        THEN (IF amount < deficitOf(rs[i]) THEN amount ELSE deficitOf(rs[i]))
        ELSE 0]
SingleRoute(rs, amount) ==
    [i \in 1..Len(rs) |-> IF under(rs[i]) THEN amount ELSE 0]

\* usdcAmount >= totalDeficit: fill the deficits, then spread what remains
\* over all n chains (the second loop only runs when remainingAmount > 0)
FillDeficitsOnlyUnder(rs, amount) ==
    LET n == Len(rs)
        k == underThresholdCount(rs)
        remainingAmount == amount - totalDeficit(rs)
        rank(i) == Cardinality({j \in 1..(i - 1) : under(rs[j])})
    IN  [i \in 1..n |->
            IF under(rs[i])
            THEN deficitOf(rs[i]) + (remainingAmount \div k)
                 + (IF rank(i) < (remainingAmount % k) THEN 1 ELSE 0)
            ELSE 0]
FillDeficitsEvenly(rs, amount) == EqualSplit(amount, Len(rs))
FillDeficits(rs, amount) ==
    LET n == Len(rs)
        remainingAmount == amount - totalDeficit(rs)
        bonus == IF remainingAmount > 0 THEN EqualSplit(remainingAmount, n)
                 ELSE [i \in 1..n |-> 0]
    IN  [i \in 1..n |-> deficitOf(rs[i]) + bonus[i]]

\* usdcAmount < totalDeficit: plan[i] = (usdcAmount * deficit) / totalDeficit
ProportionalEvenly(rs, amount) ==
    [i \in 1..Len(rs) |->
        IF under(rs[i]) THEN amount \div underThresholdCount(rs) ELSE 0]
Proportional(rs, amount) ==
    [i \in 1..Len(rs) |->
        IF under(rs[i]) THEN (amount * deficitOf(rs[i])) \div totalDeficit(rs) ELSE 0]

\* for (i = 0; i < n && remainder > 0; i++) if (plan[i] > 0) { plan[i] += 1; remainder -= 1; }
\* one pass over the plan; i is the 1-based index
RECURSIVE HandOutLoop(_, _, _)
HandOutLoop(p, i, remainder) ==
    IF i > Len(p) \/ remainder = 0 THEN p
    ELSE IF p[i] > 0
         THEN HandOutLoop([p EXCEPT ![i] = p[i] + 1], i + 1, remainder - 1)
         ELSE HandOutLoop(p, i + 1, remainder)

\* the leftover usdcAmount - distributed goes through the loop
HandOutFromFirst(p, amount) ==
    [i \in 1..Len(p) |-> p[i] + (IF i <= amount - SumSeq(p) THEN 1 ELSE 0)]
HandOut(p, amount) == HandOutLoop(p, 1, amount - SumSeq(p))

\* the branch lzReduce takes
Branch(rs) ==
    IF underThresholdCount(rs) = 0 THEN "none"
    ELSE IF underThresholdCount(rs) = 1 THEN "one"
    ELSE IF usdcAmountOf(rs) >= totalDeficit(rs) THEN "sufficient"
    ELSE "insufficient"

\* the plan lzReduce encodes, for n >= 1
lzReducePlan(rs) ==
    LET n == Len(rs)
        usdcAmount == usdcAmountOf(rs)
    IN  CASE Branch(rs) = "none" -> EqualSplit(usdcAmount, n)
          [] Branch(rs) = "one" -> SingleRoute(rs, usdcAmount)
          [] Branch(rs) = "sufficient" -> FillDeficits(rs, usdcAmount)
          [] OTHER -> HandOut(Proportional(rs, usdcAmount), usdcAmount)

AllocInit ==
    /\ responses = <<>>
    /\ plan = <<>>
    /\ lzState = "collecting"

\* lzMap: one chain's response is decoded into a BalanceData and appended to
\* the responses handed to lzReduce
lzMap(r) ==
    /\ lzState = "collecting"
    /\ Len(responses) < MaxChains
    /\ responses' = Append(responses, r)
    /\ UNCHANGED <<plan, lzState>>

\* lzReduce on the collected responses; with n = 0 the equal split divides
\* by zero and the call reverts
lzReduce ==
    /\ lzState = "collecting"
    /\ IF Len(responses) = 0
       THEN /\ lzState' = "reverted"
            /\ plan' = <<>>
       ELSE /\ lzState' = "returned"
            /\ plan' = lzReducePlan(responses)
    /\ UNCHANGED responses

(***************************************************************************)
(* Part 2.  One bridge execution.                                          *)
(*                                                                         *)
(* The variables below describe the bridge execution in progress, whichever *)
(* service drives it: CircleWalletService.bridgeUSDC (custodial wallets) or *)
(* CircleService.bridge (local key, called by the orchestrator).  Every     *)
(* await of the code is one step; the answer of the chain, of the custody   *)
(* API or of the attestation API is chosen by the environment.              *)
(***************************************************************************)
VARIABLES bpc,          \* position of the execution in the code
          reqAmount,       \* amount of the bridge request
          available,    \* USDC balance of the sender on the source chain
          balanceRead,  \* the balance has been read in this execution
          submitted,    \* transactions submitted, in order
          confirmed,    \* transactions whose confirmation was observed
          reverted,     \* transactions whose failure was observed
          msg,          \* message taken from the burn receipt
          polls,        \* number of attestation requests made
          lastAnswer,   \* answer to the latest attestation request
          pendingBefore, \* every answer before the latest was a pending status
          attempts,     \* loop counter of the wait in progress
          attestation,  \* attestation signature held
          bresult       \* what the execution returned or threw

bridgeVars == <<bpc, reqAmount, available, balanceRead, submitted, confirmed,
                reverted, msg, polls, lastAnswer, pendingBefore, attempts, attestation,
                bresult>>

\* maxAttempts = 60 of waitForTransactionConfirmation and fetchAttestation
WalletMaxAttempts == 60

NoResult == [done |-> FALSE, success |-> FALSE, status |-> "PENDING", error |-> "none"]
Success == [done |-> TRUE, success |-> TRUE, status |-> "COMPLETED", error |-> "none"]
Failure(e) == [done |-> TRUE, success |-> FALSE, status |-> "FAILED", error |-> e]

BridgeIdle ==
    /\ bpc = "idle"
    /\ reqAmount = 0
    /\ available = 0
    /\ balanceRead = FALSE
    /\ submitted = <<>>
    /\ confirmed = {}
    /\ reverted = {}
    /\ msg = "none"
    /\ polls = 0
    /\ lastAnswer = "none"
    /\ pendingBefore = TRUE
    /\ attempts = 0
    /\ attestation = "none"
    /\ bresult = NoResult

\* the record of the execution is dropped once its result is taken
ResetBridge ==
    /\ bpc' = "idle"
    /\ reqAmount' = 0
    /\ available' = 0
    /\ balanceRead' = FALSE
    /\ submitted' = <<>>
    /\ confirmed' = {}
    /\ reverted' = {}
    /\ msg' = "none"
    /\ polls' = 0
    /\ lastAnswer' = "none"
    /\ pendingBefore' = TRUE
    /\ attempts' = 0
    /\ attestation' = "none"
    /\ bresult' = NoResult

InSeq(x, s) == \E i \in 1..Len(s) : s[i] = x

\* the execution ends: bridgeUSDC rethrows, bridge returns success: false
Throw(e) ==
    /\ bpc' = "returned"
    /\ bresult' = Failure(e)

(***************************************************************************)
(* CircleWalletService.bridgeUSDC                                          *)
(***************************************************************************)

\* a call of bridgeUSDC(bridgeRequest); the record of the previous execution
\* is dropped
bridgeUSDC(a, bal) ==
    /\ bpc \in {"idle", "returned"}
    /\ bpc' = "w_balance"
    /\ reqAmount' = a
    /\ available' = bal
    /\ balanceRead' = FALSE
    /\ submitted' = <<>>
    /\ confirmed' = {}
    /\ reverted' = {}
    /\ msg' = "none"
    /\ polls' = 0
    /\ lastAnswer' = "none"
    /\ pendingBefore' = TRUE
    /\ attempts' = 0
    /\ attestation' = "none"
    /\ bresult' = NoResult

\* hasBalance of checkUSDCBalance: no USDC entry counts as no balance
hasBalance(usdcListed, bal, a) == usdcListed /\ bal >= a

\* Step 0: checkUSDCBalance, then the throw of bridgeUSDC when !hasBalance
checkUSDCBalance(walletFound, usdcListed) ==
    /\ bpc = "w_balance"
    /\ IF ~walletFound
       THEN /\ Throw("No wallet found")
            /\ UNCHANGED balanceRead
       ELSE /\ balanceRead' = TRUE
            /\ IF hasBalance(usdcListed, available, reqAmount)
               THEN /\ bpc' = "w_approve"
                    /\ UNCHANGED bresult
               ELSE Throw("Insufficient USDC balance")
    /\ UNCHANGED <<reqAmount, available, submitted, confirmed, reverted, msg,
                   polls, lastAnswer, pendingBefore, attempts, attestation>>

\* Step 1: approveUSDC; createContractExecutionTransaction throws or returns
\* the created transaction
approveUSDC(accepted) ==
    /\ bpc = "w_approve"
    /\ IF accepted
       THEN /\ submitted' = Append(submitted, "approve")
            /\ bpc' = "w_approve_wait"
            /\ attempts' = 0
            /\ UNCHANGED bresult
       ELSE /\ Throw("Contract execution failed")
            /\ UNCHANGED <<submitted, attempts>>
    /\ UNCHANGED <<reqAmount, available, balanceRead, confirmed, reverted, msg,
                   polls, lastAnswer, pendingBefore, attestation>>

\* one iteration of the loop of waitForTransactionConfirmation for the
\* transaction tx; state is the answer of getTransaction (null when the
\* read failed)
waitForTransactionConfirmation(tx, at, next, state) ==
    /\ bpc = at
    /\ attempts < WalletMaxAttempts
    /\ CASE state = "null" ->
              /\ Throw("Transaction not found")
              /\ UNCHANGED <<confirmed, reverted, attempts>>
         [] state = "COMPLETE" ->
              /\ confirmed' = confirmed \cup {tx}
              /\ bpc' = next
              /\ attempts' = 0
              /\ UNCHANGED <<reverted, bresult>>
         [] state \in {"FAILED", "CANCELLED"} ->
              /\ reverted' = reverted \cup {tx}
              /\ Throw("Transaction failed")
              /\ UNCHANGED <<confirmed, attempts>>
         [] OTHER ->
              /\ attempts' = attempts + 1
              /\ IF attempts + 1 < WalletMaxAttempts
                 THEN UNCHANGED <<bpc, bresult>>
                 ELSE Throw("Transaction confirmation timeout")
              /\ UNCHANGED <<confirmed, reverted>>
    /\ UNCHANGED <<reqAmount, available, balanceRead, submitted, msg, polls,
                   lastAnswer, pendingBefore,
                   attestation>>

TxStates == {"null", "COMPLETE", "FAILED", "CANCELLED", "PENDING"}

\* Step 2: depositForBurn up to the creation of the burn transaction
depositForBurn(accepted) ==
    /\ bpc = "w_burn"
    /\ IF accepted
       THEN /\ submitted' = Append(submitted, "burn")
            /\ bpc' = "w_burn_wait"
            /\ attempts' = 0
            /\ UNCHANGED bresult
       ELSE /\ Throw("Contract execution failed")
            /\ UNCHANGED <<submitted, attempts>>
    /\ UNCHANGED <<reqAmount, available, balanceRead, confirmed, reverted, msg,
                   polls, lastAnswer, pendingBefore, attestation>>

\* Step 4: extractMessageFromTransaction; every error of the extraction
\* (no transaction, no receipt, no MessageSent log) is caught and replaced
\* by placeholder message bytes, whose hash is returned as messageHash
extractMessageFromTransaction(found) ==
    /\ bpc = "w_extract"
    /\ msg' = IF found THEN "extracted" ELSE "placeholder"
    /\ bpc' = "w_attest"
    /\ attempts' = 0
    /\ UNCHANGED <<reqAmount, available, balanceRead, submitted, confirmed,
                   reverted, polls, lastAnswer, pendingBefore, attestation, bresult>>

\* Step 5: one iteration of the loop of fetchAttestation; answer is the
\* status of the response, "404" or "error" when axios.get throws
AttestationAnswers == {"complete", "pending_confirmations", "pending", "failed",
                       "404", "error"}

\* the statuses that say the attestation is not ready yet
PendingAnswers == {"pending_confirmations", "pending"}

fetchAttestation(answer) ==
    /\ bpc = "w_attest"
    /\ attempts < WalletMaxAttempts
    /\ polls' = polls + 1
    /\ lastAnswer' = answer
    /\ pendingBefore' = (pendingBefore /\ (polls = 0 \/ lastAnswer \in PendingAnswers))
    /\ CASE answer = "complete" ->
              /\ attestation' = "signature"
              /\ bpc' = "w_mint"
              /\ UNCHANGED <<attempts, bresult>>
         [] answer = "error" ->
              /\ Throw("Attestation request failed")
              /\ UNCHANGED <<attestation, attempts>>
         [] OTHER ->
              /\ attempts' = attempts + 1
              /\ IF attempts + 1 < WalletMaxAttempts
                 THEN UNCHANGED <<bpc, bresult>>
                 ELSE Throw("Attestation timeout")
              /\ UNCHANGED attestation
    /\ UNCHANGED <<reqAmount, available, balanceRead, submitted, confirmed,
                   reverted, msg>>

\* Step 6: mintUSDC, then the return of bridgeUSDC: the mint transaction is
\* created and the result is returned without waiting for its confirmation
mintUSDC(accepted) ==
    /\ bpc = "w_mint"
    /\ IF accepted
       THEN /\ submitted' = Append(submitted, "mint")
            /\ bpc' = "returned"
            /\ bresult' = Success
       ELSE /\ Throw("Contract execution failed")
            /\ UNCHANGED submitted
    /\ UNCHANGED <<reqAmount, available, balanceRead, confirmed, reverted, msg,
                   polls, lastAnswer, pendingBefore, attempts, attestation>>

(***************************************************************************)
(* CircleService.bridgeUSDC of backend/src/circle.ts, the service behind   *)
(* the HTTP API of backend/src/index.ts                                     *)
(***************************************************************************)

\* a call of bridgeUSDC(params); the record of the previous execution is
\* dropped
circleBridgeUSDC(a, bal) ==
    /\ bpc \in {"idle", "returned"}
    /\ bpc' = "l_approve"
    /\ reqAmount' = a
    /\ available' = bal
    /\ balanceRead' = FALSE
    /\ submitted' = <<>>
    /\ confirmed' = {}
    /\ reverted' = {}
    /\ msg' = "none"
    /\ polls' = 0
    /\ lastAnswer' = "none"
    /\ pendingBefore' = TRUE
    /\ attempts' = 0
    /\ attestation' = "none"
    /\ bresult' = NoResult

\* 1) usdcContract.approve(...) and 2) messenger.depositForBurn(...): the
\* transaction tx is sent, or the call throws
circleSend(tx, at, next, accepted) ==
    /\ bpc = at
    /\ IF accepted
       THEN /\ submitted' = Append(submitted, tx)
            /\ bpc' = next
            /\ UNCHANGED bresult
       ELSE /\ Throw("transaction rejected")
            /\ UNCHANGED submitted
    /\ UNCHANGED <<reqAmount, available, balanceRead, confirmed, reverted, msg,
                   polls, lastAnswer, pendingBefore, attempts, attestation>>

\* approveTx.wait()
circleApproveWait(ok) ==
    /\ bpc = "l_approve_wait"
    /\ IF ok
       THEN /\ confirmed' = confirmed \cup {"approve"}
            /\ bpc' = "l_burn"
            /\ UNCHANGED <<reverted, bresult>>
       ELSE /\ reverted' = reverted \cup {"approve"}
            /\ Throw("approve reverted")
            /\ UNCHANGED confirmed
    /\ UNCHANGED <<reqAmount, available, balanceRead, submitted, msg, polls,
                   lastAnswer, pendingBefore, attempts, attestation>>

\* burnTx.wait() and 3) the nonce of the MessageSent event of the receipt
circleBurnWait(ok, found) ==
    /\ bpc = "l_burn_wait"
    /\ IF ~ok
       THEN /\ reverted' = reverted \cup {"burn"}
            /\ Throw("depositForBurn reverted")
            /\ UNCHANGED <<confirmed, msg>>
       ELSE /\ confirmed' = confirmed \cup {"burn"}
            /\ msg' = IF found THEN "extracted" ELSE "missing"
            /\ UNCHANGED reverted
            /\ IF found
               THEN /\ bpc' = "l_poll"
                    /\ UNCHANGED bresult
               ELSE Throw("MessageSent event not found")
    /\ UNCHANGED <<reqAmount, available, balanceRead, submitted, polls,
                   lastAnswer, pendingBefore, attempts, attestation>>

\* 4) one iteration of the do-while loop polling v2/messages/{nonce}: the
\* loop has no counter and ends only on the status COMPLETED or when
\* axios.get throws ("404", "error"); MaxPolls bounds the polls explored
circlePoll(answer) ==
    /\ bpc = "l_poll"
    /\ polls < MaxPolls
    /\ polls' = polls + 1
    /\ lastAnswer' = answer
    /\ pendingBefore' = (pendingBefore /\ (polls = 0 \/ lastAnswer \in PendingAnswers))
    /\ CASE answer = "complete" ->
              /\ attestation' = "signature"
              /\ bpc' = "returned"
              /\ bresult' = Success
         [] answer \in {"404", "error"} ->
              /\ Throw("Attestation request failed")
              /\ UNCHANGED attestation
         [] OTHER -> UNCHANGED <<bpc, bresult, attestation>>
    /\ UNCHANGED <<reqAmount, available, balanceRead, submitted, confirmed,
                   reverted, msg, attempts>>

(***************************************************************************)
(* Part 3.  The dispatch orchestrator (IntegratedXPayrService) and the     *)
(* bridge it runs for each entry (CircleService.bridge).                   *)
(***************************************************************************)
VARIABLES opc,       \* position of the orchestrator in the code
          oreq,      \* the IntegratedDispatchRequest being served
          idx,       \* loop index i, 1-based
          feasible,  \* feasible flag of simulateDispatch
          quotes,    \* the entries for which getQuote was called, in order
          sent,      \* <<entry, transaction>> submitted for this request
          results,   \* the dispatches collected so far
          oresp      \* the response returned

orchVars == <<opc, oreq, idx, feasible, quotes, sent, results, oresp>>

\* the entry whose bridge execution was pending when the time
\* Date.now() + request.timeout, computed for it, was reached; 0 when the
\* request has no timeout or the time was not reached
VARIABLES deadlineHit

clockVars == <<deadlineHit>>

MaxEntries == 2
MaxEntryAmount == 2

\* retryAttempts: config.retryAttempts || 5, and the orchestrator passes 5
RetryAttempts == 5

\* one entry of the plan: its amount, and whether CHAIN_TO_CHAIN_ID knows
\* the source and the target chain of the transfer
Entries == [amount : 0..MaxEntryAmount, chainOk : BOOLEAN]

Plans == UNION {[1..n -> Entries] : n \in 1..MaxEntries}

\* the requests a client can make of the entry point e; lengthsOk is false
\* when recipients has not the length of chains (chains and dispatchPlan
\* have the same length)
Requests(e) == [entry : {e}, dispatchPlan : Plans, dryRun : BOOLEAN,
                hasKey : BOOLEAN, lengthsOk : BOOLEAN]

NoRequest == [entry |-> "none", dispatchPlan |-> <<>>, dryRun |-> FALSE,
              hasKey |-> FALSE, lengthsOk |-> TRUE]

NoResponse == [done |-> FALSE, success |-> FALSE, dispatches |-> <<>>, error |-> "none"]

OrchIdle ==
    /\ opc = "idle"
    /\ oreq = NoRequest
    /\ idx = 0
    /\ feasible = TRUE
    /\ quotes = <<>>
    /\ sent = <<>>
    /\ results = <<>>
    /\ oresp = NoResponse
    /\ deadlineHit = 0

Dispatch(i, a, st, e) == [chain |-> i, amount |-> a, status |-> st, error |-> e]

(***************************************************************************)
(* CircleService.bridge                                                    *)
(***************************************************************************)

\* where bridge goes after its synchronous checks: unsupported chain, then
\* dry run, then missing private key
bridgeEntryNoDryRun(chainOk, dryRun, hasKey) ==
    IF ~chainOk THEN "unsupported"
    ELSE IF ~hasKey THEN "nokey"
    ELSE "c_approve"
bridgeEntry(chainOk, dryRun, hasKey) ==
    IF ~chainOk THEN "unsupported"
    ELSE IF dryRun THEN "c_simulate"
    ELSE IF ~hasKey THEN "nokey"
    ELSE "c_approve"

\* bridge(request), called by the orchestrator for the entry idx when its
\* amount is > 0; executeDispatch passes request.dryRun through, the request
\* built by executeDispatchPlan has no dryRun field.  bal is the USDC balance
\* the sender has on the source chain, which bridge does not read.
bridge(bal) ==
    /\ opc = "loop"
    /\ idx <= Len(oreq.dispatchPlan)
    /\ oreq.dispatchPlan[idx].amount > 0
    /\ bpc = "idle"
    /\ opc' = "bridging"
    /\ reqAmount' = oreq.dispatchPlan[idx].amount
    /\ available' = bal
    /\ LET dryRun == IF oreq.entry = "executeDispatch" THEN oreq.dryRun ELSE FALSE
           to == bridgeEntry(oreq.dispatchPlan[idx].chainOk, dryRun, oreq.hasKey)
       IN  CASE to = "unsupported" -> Throw("Unsupported chain")
             [] to = "nokey" -> Throw("Sender private key is required")
             [] OTHER -> /\ bpc' = to
                         /\ UNCHANGED bresult
    /\ UNCHANGED <<balanceRead, submitted, confirmed, reverted, msg, polls,
                   lastAnswer, pendingBefore, attempts, attestation>>
    /\ UNCHANGED <<oreq, idx, feasible, quotes, sent, results, oresp>>

\* simulateBridge: getQuote, whose estimateGas falls back to the default
\* fee when the fee read fails; reports success with status COMPLETED
simulateBridge(feeOk) ==
    /\ bpc = "c_simulate"
    /\ quotes' = Append(quotes, idx)
    /\ bpc' = "returned"
    /\ bresult' = Success
    /\ UNCHANGED <<reqAmount, available, balanceRead, submitted, confirmed,
                   reverted, msg, polls, lastAnswer, pendingBefore, attempts, attestation>>
    /\ UNCHANGED <<opc, oreq, idx, feasible, sent, results, oresp>>

\* a transaction of the execution is sent to the chain
Submit(tx) ==
    /\ submitted' = Append(submitted, tx)
    /\ sent' = Append(sent, <<idx, tx>>)

\* Step 1: approveTokens, the call tokenContract.approve(...)
approveTokens(accepted) ==
    /\ bpc = "c_approve"
    /\ IF accepted
       THEN /\ Submit("approve")
            /\ bpc' = "c_approve_wait"
            /\ UNCHANGED bresult
       ELSE /\ Throw("approve rejected")
            /\ UNCHANGED <<submitted, sent>>
    /\ UNCHANGED <<reqAmount, available, balanceRead, confirmed, reverted, msg,
                   polls, lastAnswer, pendingBefore, attempts, attestation>>
    /\ UNCHANGED <<opc, oreq, idx, feasible, quotes, results, oresp>>

\* Step 1: approveTokens, approveTx.wait()
approveTokensWaitRetry(ok) ==
    /\ bpc = "c_approve_wait"
    /\ IF ok
       THEN /\ confirmed' = confirmed \cup {"approve"}
            /\ bpc' = "c_burn"
            /\ UNCHANGED <<reverted, bresult>>
       ELSE /\ reverted' = reverted \cup {"approve"}
            /\ bpc' = "c_approve"
            /\ UNCHANGED <<confirmed, bresult>>
    /\ UNCHANGED <<reqAmount, available, balanceRead, submitted, msg, polls,
                   lastAnswer, pendingBefore, attempts, attestation>>
    /\ UNCHANGED orchVars
approveTokensWait(ok) ==
    /\ bpc = "c_approve_wait"
    /\ IF ok
       THEN /\ confirmed' = confirmed \cup {"approve"}
            /\ bpc' = "c_burn"
            /\ UNCHANGED <<reverted, bresult>>
       ELSE /\ reverted' = reverted \cup {"approve"}
            /\ Throw("approve reverted")
            /\ UNCHANGED confirmed
    /\ UNCHANGED <<reqAmount, available, balanceRead, submitted, msg, polls,
                   lastAnswer, pendingBefore,
                   attempts, attestation>>
    /\ UNCHANGED orchVars

\* Step 2: executeDepositForBurn, the call tokenMessenger.depositForBurn(...)
executeDepositForBurn(accepted) ==
    /\ bpc = "c_burn"
    /\ IF accepted
       THEN /\ Submit("burn")
            /\ bpc' = "c_burn_wait"
            /\ UNCHANGED bresult
       ELSE /\ Throw("depositForBurn rejected")
            /\ UNCHANGED <<submitted, sent>>
    /\ UNCHANGED <<reqAmount, available, balanceRead, confirmed, reverted, msg,
                   polls, lastAnswer, pendingBefore, attempts, attestation>>
    /\ UNCHANGED <<opc, oreq, idx, feasible, quotes, results, oresp>>

\* Step 2: executeDepositForBurn, tx.wait() and the extraction of the
\* message id from the receipt
executeDepositForBurnWait(ok, found) ==
    /\ bpc = "c_burn_wait"
    /\ IF ~ok
       THEN /\ reverted' = reverted \cup {"burn"}
            /\ Throw("depositForBurn reverted")
            /\ UNCHANGED <<confirmed, msg, attempts>>
       ELSE /\ confirmed' = confirmed \cup {"burn"}
            /\ msg' = IF found THEN "extracted" ELSE "missing"
            /\ UNCHANGED reverted
            /\ IF ~found
               THEN /\ Throw("MessageSent event not found")
                    /\ UNCHANGED attempts
               ELSE /\ bpc' = "c_attest"
                    /\ attempts' = 0
                    /\ UNCHANGED bresult
    /\ UNCHANGED <<reqAmount, available, balanceRead, submitted, polls,
                   lastAnswer, pendingBefore,
                   attestation>>
    /\ UNCHANGED orchVars

\* Step 3: one iteration of the loop of waitForAttestation, and the return
\* of bridge when the attestation is complete.  A 'failed' status throws
\* inside the try block, so it is handled by the same catch as a request
\* error.
waitForAttestation(answer) ==
    /\ bpc = "c_attest"
    /\ attempts < RetryAttempts
    /\ polls' = polls + 1
    /\ lastAnswer' = answer
    /\ pendingBefore' = (pendingBefore /\ (polls = 0 \/ lastAnswer \in PendingAnswers))
    /\ CASE answer = "complete" ->
              /\ attestation' = "signature"
              /\ bpc' = "returned"
              /\ bresult' = Success
              /\ UNCHANGED attempts
         [] answer \in {"failed", "404", "error"} ->
              /\ IF attempts = RetryAttempts - 1
                 THEN /\ Throw("Failed to get attestation")
                      /\ UNCHANGED attempts
                 ELSE /\ attempts' = attempts + 1
                      /\ UNCHANGED <<bpc, bresult>>
              /\ UNCHANGED attestation
         [] OTHER ->
              /\ attempts' = attempts + 1
              /\ IF attempts + 1 < RetryAttempts
                 THEN UNCHANGED <<bpc, bresult>>
                 ELSE Throw("Attestation timeout")
              /\ UNCHANGED attestation
    /\ UNCHANGED <<reqAmount, available, balanceRead, submitted, confirmed,
                   reverted, msg>>
    /\ UNCHANGED orchVars

(***************************************************************************)
(* IntegratedXPayrService, enhanced version: simulateDispatch,             *)
(* executeDispatch                                                         *)
(***************************************************************************)

\* the response of the catch block of executeDispatch / executeDispatchPlan
Rejected(e) == [done |-> TRUE, success |-> FALSE, dispatches |-> <<>>, error |-> e]

\* a call of executeDispatch(request), which starts from fresh local
\* variables: a dry run skips the simulation, and
\* with it the validation of the array lengths
executeDispatch(r) ==
    /\ opc = "idle"
    /\ r.entry = "executeDispatch"
    /\ oreq' = r
    /\ idx' = 1
    /\ IF r.dryRun
       THEN /\ opc' = "loop"
            /\ oresp' = NoResponse
       ELSE IF r.lengthsOk
            THEN /\ opc' = "simulate"
                 /\ oresp' = NoResponse
            ELSE /\ opc' = "done"
                 /\ oresp' = Rejected("Mismatched array lengths")
    /\ feasible' = TRUE
    /\ quotes' = <<>>
    /\ sent' = <<>>
    /\ results' = <<>>
    /\ UNCHANGED bridgeVars

\* a call of simulateDispatch(request) by a client
simulateDispatch(r) ==
    /\ opc = "idle"
    /\ r.entry = "simulateDispatch"
    /\ oreq' = r
    /\ idx' = 1
    /\ IF r.lengthsOk
       THEN /\ opc' = "simulate"
            /\ oresp' = NoResponse
       ELSE /\ opc' = "done"
            /\ oresp' = Rejected("Mismatched array lengths")
    /\ feasible' = TRUE
    /\ quotes' = <<>>
    /\ sent' = <<>>
    /\ results' = <<>>
    /\ UNCHANGED bridgeVars

\* one iteration of the loop of simulateDispatch: a quote for an entry > 0;
\* getQuote throws for an unsupported chain, the entry is then recorded with
\* fees '0' and the plan is not feasible
simulateDispatchQuote ==
    /\ opc = "simulate"
    /\ idx <= Len(oreq.dispatchPlan)
    /\ LET e == oreq.dispatchPlan[idx]
       IN  IF e.amount > 0
           THEN /\ quotes' = Append(quotes, idx)
                /\ feasible' = (feasible /\ e.chainOk)
                /\ results' = Append(results,
                       Dispatch(idx, e.amount, "simulated",
                                IF e.chainOk THEN "none" ELSE "Quote failed"))
           ELSE UNCHANGED <<quotes, feasible, results>>
    /\ idx' = idx + 1
    /\ UNCHANGED <<opc, oreq, sent, oresp>>
    /\ UNCHANGED bridgeVars

\* the end of simulateDispatch, and what its caller does with the result
simulateDispatchEnd ==
    /\ opc = "simulate"
    /\ idx > Len(oreq.dispatchPlan)
    /\ IF oreq.entry = "simulateDispatch"
       THEN /\ opc' = "done"
            /\ oresp' = [done |-> TRUE, success |-> feasible,
                         dispatches |-> results, error |-> "none"]
            /\ UNCHANGED <<idx, results>>
       ELSE IF ~feasible
            THEN /\ opc' = "done"
                 /\ oresp' = [done |-> TRUE, success |-> FALSE,
                              dispatches |-> [k \in 1..Len(results) |->
                                  [results[k] EXCEPT !.status = "FAILED",
                                                     !.error = "Simulation failed"]],
                              error |-> "Dispatch not feasible"]
                 /\ UNCHANGED <<idx, results>>
            ELSE /\ opc' = "loop"
                 /\ idx' = 1
                 /\ results' = <<>>
                 /\ UNCHANGED oresp
    /\ UNCHANGED <<oreq, feasible, quotes, sent>>
    /\ UNCHANGED bridgeVars

\* executeDispatch, an entry with amount 0: nothing is done for it
executeDispatchSkip ==
    /\ opc = "loop"
    /\ oreq.entry = "executeDispatch"
    /\ idx <= Len(oreq.dispatchPlan)
    /\ oreq.dispatchPlan[idx].amount = 0
    /\ idx' = idx + 1
    /\ UNCHANGED <<opc, oreq, feasible, quotes, sent, results, oresp>>
    /\ UNCHANGED bridgeVars

\* executeDispatch, the result of bridge is pushed to results
executeDispatchCollect ==
    /\ opc = "bridging"
    /\ oreq.entry = "executeDispatch"
    /\ bpc = "returned"
    /\ results' = Append(results,
           Dispatch(idx, reqAmount,
                    IF bresult.success THEN bresult.status ELSE "FAILED",
                    bresult.error))
    /\ idx' = idx + 1
    /\ opc' = "loop"
    /\ ResetBridge
    /\ UNCHANGED <<oreq, feasible, quotes, sent, oresp>>

\* options.deadline of the bridge request of executeDispatch: the deadline
\* computed for the entry idx passes while its bridge execution is pending.
\* Nothing reads options.deadline: bridge and executeDispatch go on as before.
deadlinePasses ==
    /\ opc = "bridging"
    /\ oreq.entry = "executeDispatch"
    /\ ~bresult.done
    /\ deadlineHit = 0
    /\ deadlineHit' = idx
    /\ UNCHANGED bridgeVars
    /\ UNCHANGED orchVars

\* allSuccessful: set to false whenever a FAILED dispatch is pushed
allSuccessfulLast(rs) == rs = <<>> \/ rs[Len(rs)].status # "FAILED"
allSuccessful(rs) == \A k \in 1..Len(rs) : rs[k].status # "FAILED"

\* executeDispatch, the return after the loop
executeDispatchReturn ==
    /\ opc = "loop"
    /\ oreq.entry = "executeDispatch"
    /\ idx > Len(oreq.dispatchPlan)
    /\ opc' = "done"
    /\ oresp' = [done |-> TRUE, success |-> allSuccessful(results),
                 dispatches |-> results, error |-> "none"]
    /\ UNCHANGED <<oreq, idx, feasible, quotes, sent, results>>
    /\ UNCHANGED bridgeVars

(***************************************************************************)
(* IntegratedXPayrService, first version: executeDispatchPlan and its      *)
(* simulateDispatch (executeDispatchPlan with dryRun: true)                *)
(***************************************************************************)

\* a call of executeDispatchPlan(request): 1. validate request
executeDispatchPlan(r) ==
    /\ opc = "idle"
    /\ r.entry = "executeDispatchPlan"
    /\ oreq' = r
    /\ idx' = 1
    /\ IF r.lengthsOk
       THEN /\ opc' = "quoting"
            /\ oresp' = NoResponse
       ELSE /\ opc' = "done"
            /\ oresp' = Rejected("Mismatched array lengths")
    /\ feasible' = TRUE
    /\ quotes' = <<>>
    /\ sent' = <<>>
    /\ results' = <<>>
    /\ UNCHANGED bridgeVars

\* 2. getDispatchQuotes, one iteration: a failed quote is rethrown and ends
\* executeDispatchPlan in its catch block
getDispatchQuotes ==
    /\ opc = "quoting"
    /\ idx <= Len(oreq.dispatchPlan)
    /\ LET e == oreq.dispatchPlan[idx]
       IN  IF e.amount > 0
           THEN /\ quotes' = Append(quotes, idx)
                /\ IF e.chainOk
                   THEN /\ idx' = idx + 1
                        /\ UNCHANGED <<opc, oresp>>
                   ELSE /\ opc' = "done"
                        /\ oresp' = Rejected("Quote failed")
                        /\ UNCHANGED idx
           ELSE /\ idx' = idx + 1
                /\ UNCHANGED <<quotes, opc, oresp>>
    /\ UNCHANGED <<oreq, feasible, sent, results>>
    /\ UNCHANGED bridgeVars

\* the dispatches of a dry run: one per chain, all pending
dryRunDispatches(p) == [k \in 1..Len(p) |-> Dispatch(k, p[k].amount, "pending", "none")]

\* after the quotes: the dry run returns here, otherwise 3. execute
getDispatchQuotesEnd ==
    /\ opc = "quoting"
    /\ idx > Len(oreq.dispatchPlan)
    /\ IF oreq.dryRun
       THEN /\ opc' = "done"
            /\ oresp' = [done |-> TRUE, success |-> TRUE,
                         dispatches |-> dryRunDispatches(oreq.dispatchPlan),
                         error |-> "none"]
            /\ UNCHANGED idx
       ELSE /\ opc' = "loop"
            /\ idx' = 1
            /\ UNCHANGED oresp
    /\ UNCHANGED <<oreq, feasible, quotes, sent, results>>
    /\ UNCHANGED bridgeVars

\* executeDispatchPlan, amount <= 0: recorded as completed with amount '0'
executeDispatchPlanSkip ==
    /\ opc = "loop"
    /\ oreq.entry = "executeDispatchPlan"
    /\ idx <= Len(oreq.dispatchPlan)
    /\ oreq.dispatchPlan[idx].amount = 0
    /\ results' = Append(results, Dispatch(idx, 0, "completed", "none"))
    /\ idx' = idx + 1
    /\ UNCHANGED <<opc, oreq, feasible, quotes, sent, oresp>>
    /\ UNCHANGED bridgeVars

\* executeDispatchPlan, the response of bridge is pushed to dispatches
executeDispatchPlanCollect ==
    /\ opc = "bridging"
    /\ oreq.entry = "executeDispatchPlan"
    /\ bpc = "returned"
    /\ results' = Append(results,
           Dispatch(idx, reqAmount,
                    IF bresult.success THEN "completed" ELSE "failed",
                    bresult.error))
    /\ idx' = idx + 1
    /\ opc' = "loop"
    /\ ResetBridge
    /\ UNCHANGED <<oreq, feasible, quotes, sent, oresp>>

\* allCompleted: successCount === dispatches.filter(amount > 0).length
allCompleted(rs) ==
    Cardinality({k \in 1..Len(rs) : rs[k].amount > 0 /\ rs[k].status = "completed"})
      = Cardinality({k \in 1..Len(rs) : rs[k].amount > 0})

\* executeDispatchPlan, the return after the loop
executeDispatchPlanReturn ==
    /\ opc = "loop"
    /\ oreq.entry = "executeDispatchPlan"
    /\ idx > Len(oreq.dispatchPlan)
    /\ opc' = "done"
    /\ oresp' = [done |-> TRUE, success |-> allCompleted(results),
                 dispatches |-> results,
                 error |-> IF allCompleted(results) THEN "none"
                           ELSE "dispatches not completed"]
    /\ UNCHANGED <<oreq, idx, feasible, quotes, sent, results>>
    /\ UNCHANGED bridgeVars

(***************************************************************************)
(* Part 4.  The read-only services: CircleService.getQuote,                *)
(* IntegratedXPayrService.getDispatchQuotes and monitorDispatch.           *)
(*                                                                         *)
(* Fees are strings of a decimal number of ether in the code, written by    *)
(* ethers.formatEther from a number of wei without rounding; a fee is       *)
(* modelled by the number of gwei it denotes.                               *)
(***************************************************************************)
VARIABLES qreq,   \* the CCTPQuoteRequest of the latest call of getQuote
          qfee,   \* what provider.getFeeData() answered in that call
          qres    \* what the call returned or threw

quoteVars == <<qreq, qfee, qres>>

\* two of the chains of CHAIN_TO_CHAIN_ID, and a chain it does not hold
ChainNames == {"ETH", "BASE", "unknown"}
supported(c) == c \in {"ETH", "BASE"}

MaxGasPrice == 2

\* the answers of provider.getFeeData(): the call throws (FeeReadFails), or
\* a gas price in gwei; 0 stands for the falsy answers, null and 0n
FeeReadFails == -1
NoFeeRead == -2
FeeReads == {FeeReadFails} \cup (0..MaxGasPrice)

\* config.defaultGasLimit
DefaultGasLimit == 200000
\* ethers.parseUnits('20', 'gwei'), in gwei
FallbackGasPrice == 20
\* gasFee: '0.01' ether of the catch block of estimateGas, in gwei
DefaultGasFee == 10000000

QuoteRequests == [fromChain : ChainNames, toChain : ChainNames,
                  amount : 1..MaxEntryAmount]

NoQuoteRequest == [fromChain |-> "none", toChain |-> "none", amount |-> 0]

NoQuote == [done |-> FALSE, thrown |-> FALSE, toChain |-> "none", amount |-> 0,
            gasFee |-> 0, bridgeFee |-> 0, totalFee |-> 0]

QuoteInit ==
    /\ qreq = NoQuoteRequest
    /\ qfee = NoFeeRead
    /\ qres = NoQuote

\* estimateGas: gasFee and totalFee of the CCTPFeeEstimation; a failed read
\* of the fee data is caught and answered by the default estimate
estimateGasRethrow(fee) ==
    IF fee = FeeReadFails THEN [thrown |-> TRUE, gasFee |-> 0, totalFee |-> 0]
    ELSE LET gasPrice == IF fee = 0 THEN FallbackGasPrice ELSE fee
             gasCost == gasPrice * DefaultGasLimit
         IN  [thrown |-> FALSE, gasFee |-> gasCost, totalFee |-> gasCost]
estimateGas(fee) ==
    IF fee = FeeReadFails THEN [thrown |-> FALSE, gasFee |-> DefaultGasFee, totalFee |-> DefaultGasFee]
    ELSE LET gasPrice == IF fee = 0 THEN FallbackGasPrice ELSE fee
             gasCost == gasPrice * DefaultGasLimit
         IN  [thrown |-> FALSE, gasFee |-> gasCost, totalFee |-> gasCost]

\* what getQuote throws: 'Quote request failed: ...'
QuoteFailed(r) == [done |-> TRUE, thrown |-> TRUE, toChain |-> r.toChain,
                   amount |-> r.amount, gasFee |-> 0, bridgeFee |-> 0, totalFee |-> 0]

\* the CCTPQuoteResponse of getQuote for the request r when getFeeData
\* answers fee; the fee data is not read for an unsupported chain
quoteOf(r, fee) ==
    IF ~supported(r.fromChain) \/ ~supported(r.toChain) THEN QuoteFailed(r)
    ELSE LET gasEstimation == estimateGas(fee)
         IN  IF gasEstimation.thrown THEN QuoteFailed(r)
             ELSE [done |-> TRUE, thrown |-> FALSE, toChain |-> r.toChain,
                   amount |-> r.amount, gasFee |-> gasEstimation.gasFee,
                   bridgeFee |-> 0, totalFee |-> gasEstimation.gasFee]

\* a call of getQuote(request) by a client
getQuote(r, fee) ==
    /\ qreq' = r
    /\ qfee' = IF supported(r.fromChain) /\ supported(r.toChain) THEN fee ELSE NoFeeRead
    /\ qres' = quoteOf(r, fee)

(***************************************************************************)
(* IntegratedXPayrService.getDispatchQuotes of the enhanced version, and    *)
(* the simulateDispatch it runs.  The arrays of the request have the same   *)
(* length and its source chain is one CHAIN_TO_CHAIN_ID holds.              *)
(***************************************************************************)
VARIABLES dpc,      \* position of getDispatchQuotes in the code
          dreq,     \* chains[i] and dispatchPlan[i] of the request, by entry
          di,       \* loop index i of simulateDispatch, 1-based
          dsim,     \* simulation.dispatches
          dquotes   \* the quotes returned

dispatchQuoteVars == <<dpc, dreq, di, dsim, dquotes>>

\* one entry of the request: request.chains[i], request.dispatchPlan[i]
PlanEntries == [chain : ChainNames, amount : 0..MaxEntryAmount]

QuotePlans == UNION {[1..k -> PlanEntries] : k \in 1..MaxEntries}

\* request.sourceChain
SourceChain == "ETH"

DispatchQuoteInit ==
    /\ dpc = "idle"
    /\ dreq = <<>>
    /\ di = 0
    /\ dsim = <<>>
    /\ dquotes = <<>>

\* a call of getDispatchQuotes(request) by a client, up to the loop of
\* simulateDispatch; the record of the latest call of getQuote is dropped
integratedGetDispatchQuotes(p) ==
    /\ dpc = "idle"
    /\ dpc' = "simulating"
    /\ dreq' = p
    /\ di' = 1
    /\ dsim' = <<>>
    /\ dquotes' = <<>>
    /\ qreq' = NoQuoteRequest
    /\ qfee' = NoFeeRead
    /\ qres' = NoQuote

\* the dispatch simulateDispatch pushes for the entry e when getFeeData
\* answers fee: the fees of the quote, or '0' when getQuote threw
simulatedDispatch(e, fee) ==
    LET quote == quoteOf([fromChain |-> SourceChain, toChain |-> e.chain,
                          amount |-> e.amount], fee)
    IN  [chain |-> e.chain, amount |-> e.amount,
         fees |-> IF quote.thrown THEN 0 ELSE quote.totalFee]

\* one iteration of the loop of simulateDispatch
integratedSimulateDispatch(fee) ==
    /\ dpc = "simulating"
    /\ di <= Len(dreq)
    /\ dsim' = IF dreq[di].amount > 0
               THEN Append(dsim, simulatedDispatch(dreq[di], fee))
               ELSE dsim
    /\ di' = di + 1
    /\ UNCHANGED <<dpc, dreq, dquotes>>

\* simulation.dispatches.find(d => d.chain === c): the first one of the chain
find(sim, c) ==
    LET js == {j \in 1..Len(sim) : sim[j].chain = c}
    IN  sim[CHOOSE j \in js : \A k \in js : j <= k]

\* the loop of getDispatchQuotes over the entries from i on: a quote built
\* from the dispatch found for the chain of each entry > 0
RECURSIVE quotesFrom(_, _, _)
quotesFrom(p, sim, i) ==
    IF i > Len(p) THEN <<>>
    ELSE IF p[i].amount > 0 /\ \E j \in 1..Len(sim) : sim[j].chain = p[i].chain
         THEN LET dispatch == find(sim, p[i].chain)
              IN  <<[toChain |-> p[i].chain, amount |-> dispatch.amount,
                     gasFee |-> dispatch.fees, bridgeFee |-> 0,
                     totalFee |-> dispatch.fees]>> \o quotesFrom(p, sim, i + 1)
         ELSE quotesFrom(p, sim, i + 1)

\* the return of getDispatchQuotes, after simulateDispatch has returned
integratedGetDispatchQuotesReturn ==
    /\ dpc = "simulating"
    /\ di > Len(dreq)
    /\ dpc' = "returned"
    /\ dquotes' = quotesFrom(dreq, dsim, 1)
    /\ UNCHANGED <<dreq, di, dsim>>

(***************************************************************************)
(* IntegratedXPayrService.monitorDispatch and the getMessageStatus it calls *)
(***************************************************************************)
VARIABLES mpc,        \* position of monitorDispatch in the code
          messageIds, \* the argument of the call
          lookups,    \* what the status lookup of each id met, in order
          messages,   \* the records pushed
          completed, pending, failed

monitorVars == <<mpc, messageIds, lookups, messages, completed, pending, failed>>

\* the ids a client asks about; an id may occur more than once
MessageIdLists == UNION {[1..k -> 1..MaxEntries] : k \in 1..MaxEntries}

\* what the lookup of one id meets: the request to the API throws, the API
\* knows no message, or it returns a message with this status field
\* ("undefined" when the message has no status)
Lookups == {"throws", "none", "undefined", "complete", "COMPLETED", "pending",
            "attesting", "failed", "expired", "unknown"}

MonitorInit ==
    /\ mpc = "idle"
    /\ messageIds = <<>>
    /\ lookups = <<>>
    /\ messages = <<>>
    /\ completed = 0
    /\ pending = 0
    /\ failed = 0

\* getMessageStatus: every error is caught and answered by null ("none")
getMessageStatus(lookup) == IF lookup = "throws" THEN "none" ELSE lookup

\* status.toLowerCase()
toLowerCase(status) == IF status = "COMPLETED" THEN "completed" ELSE status

\* mapStatusToCCTPStatus
mapStatusToCCTPStatus(status) ==
    LET s == toLowerCase(status)
    IN  CASE s \in {"completed", "complete"} -> "COMPLETED"
          [] s = "pending" -> "PENDING"
          [] s = "confirming" -> "CONFIRMING"
          [] s = "attesting" -> "ATTESTING"
          [] s = "ready_to_mint" -> "READY_TO_MINT"
          [] s = "failed" -> "FAILED"
          [] s = "expired" -> "EXPIRED"
          [] OTHER -> "PENDING"

\* calculateProgress
calculateProgress(status) ==
    CASE status = "PENDING" -> 10
      [] status = "CONFIRMING" -> 30
      [] status = "ATTESTING" -> 60
      [] status = "READY_TO_MINT" -> 90
      [] status = "COMPLETED" -> 100
      [] OTHER -> 0

\* the record pushed for messageId: the mapped status of the message found,
\* PENDING when there is none, FAILED when the body of the try block throws
\* (status.toLowerCase() of a message without status)
monitored(messageId, lookup) ==
    LET message == getMessageStatus(lookup)
    IN  IF message = "none"
        THEN [messageId |-> messageId, status |-> "PENDING", progress |-> 0]
        ELSE IF message = "undefined"
        THEN [messageId |-> messageId, status |-> "FAILED", progress |-> 0]
        ELSE [messageId |-> messageId, status |-> mapStatusToCCTPStatus(message),
              progress |-> calculateProgress(mapStatusToCCTPStatus(message))]

\* the counter incremented with the record of this status
tallyNamed(status) ==
    IF status = "COMPLETED" THEN "completed"
    ELSE IF status = "FAILED" THEN "failed"
    ELSE IF status = "PENDING" THEN "pending"
    ELSE "none"
tally(status) ==
    IF status = "COMPLETED" THEN "completed"
    ELSE IF status = "FAILED" THEN "failed"
    ELSE "pending"

\* a call of monitorDispatch(messageIds) by a client; the record of the
\* latest call of getQuote is dropped
monitorDispatch(ids) ==
    /\ mpc = "idle"
    /\ mpc' = "loop"
    /\ messageIds' = ids
    /\ lookups' = <<>>
    /\ messages' = <<>>
    /\ completed' = 0
    /\ pending' = 0
    /\ failed' = 0
    /\ qreq' = NoQuoteRequest
    /\ qfee' = NoFeeRead
    /\ qres' = NoQuote

\* one iteration of the loop over messageIds
monitorDispatchStep(lookup) ==
    /\ mpc = "loop"
    /\ Len(messages) < Len(messageIds)
    /\ LET record == monitored(messageIds[Len(messages) + 1], lookup)
       IN  /\ messages' = Append(messages, record)
           /\ completed' = completed + (IF tally(record.status) = "completed" THEN 1 ELSE 0)
           /\ pending' = pending + (IF tally(record.status) = "pending" THEN 1 ELSE 0)
           /\ failed' = failed + (IF tally(record.status) = "failed" THEN 1 ELSE 0)
    /\ lookups' = Append(lookups, lookup)
    /\ UNCHANGED <<mpc, messageIds>>

\* the return after the loop
monitorDispatchReturn ==
    /\ mpc = "loop"
    /\ Len(messages) = Len(messageIds)
    /\ mpc' = "returned"
    /\ UNCHANGED <<messageIds, lookups, messages, completed, pending, failed>>

(***************************************************************************)
(* Part 5.  The Invoice contract, created by InvoiceFactory.createInvoice.  *)
(*                                                                         *)
(* One invoice is followed.  A call is one transaction: it runs to its end  *)
(* or reverts and leaves the storage as it was.  The token is USDC, whose   *)
(* transferFrom and transfer do not call back into the invoice.             *)
(***************************************************************************)
VARIABLES merchant,        \* address(0) until the invoice is created
          payer,
          invoiceAmount,   \* the field amount
          paid,
          paidAt,
          invoiceBalance,  \* USDC held by the invoice
          blockTime,       \* block.timestamp
          invoiceCall      \* the latest call made to the invoice

invoiceVars == <<merchant, payer, invoiceAmount, paid, paidAt, invoiceBalance,
                 blockTime, invoiceCall>>

MaxAddress == 2
MaxTime == 3

ZeroAddress == 0
Addresses == 0..MaxAddress

NoCall == [fn |-> "none", arg |-> 0, revert |-> "none"]
Call(f, a, r) == [fn |-> f, arg |-> a, revert |-> r]

\* before createInvoice; block.timestamp is the Unix time of a mined block
InvoiceInit ==
    /\ merchant = ZeroAddress
    /\ payer = ZeroAddress
    /\ invoiceAmount = 0
    /\ paid = FALSE
    /\ paidAt = 0
    /\ invoiceBalance = 0
    /\ blockTime = 1
    /\ invoiceCall = NoCall

\* InvoiceFactory.createInvoice(amount) by sender, and the constructor of
\* Invoice it runs
createInvoice(sender, a) ==
    /\ merchant = ZeroAddress
    /\ sender # ZeroAddress
    /\ IF a > 0
       THEN /\ merchant' = sender
            /\ invoiceAmount' = a
            /\ paid' = FALSE
            /\ invoiceCall' = Call("createInvoice", a, "none")
       ELSE /\ invoiceCall' = Call("createInvoice", a, "Amount must be > 0")
            /\ UNCHANGED <<merchant, invoiceAmount, paid>>
    /\ UNCHANGED <<payer, paidAt, invoiceBalance, blockTime>>

\* the outcomes of IERC20(usdc).transferFrom / transfer
TransferOutcomes == {"true", "false", "reverts"}

\* pay(_payer); transfer is the outcome of transferFrom
payUnchecked(_payer, transfer) ==
    /\ merchant # ZeroAddress
    /\ LET revert == IF _payer = ZeroAddress THEN "Invalid payer"
                     ELSE IF transfer = "reverts" THEN "transferFrom reverted"
                     ELSE IF transfer = "false" THEN "USDC transfer failed"
                     ELSE "none"
       IN  /\ invoiceCall' = Call("pay", _payer, revert)
           /\ IF revert = "none"
              THEN /\ payer' = _payer
                   /\ paid' = TRUE
                   /\ paidAt' = blockTime
                   /\ invoiceBalance' = invoiceBalance + invoiceAmount
              ELSE UNCHANGED <<payer, paid, paidAt, invoiceBalance>>
    /\ UNCHANGED <<merchant, invoiceAmount, blockTime>>
pay(_payer, transfer) ==
    /\ merchant # ZeroAddress
    /\ LET revert == IF paid THEN "Already paid"
                     ELSE IF _payer = ZeroAddress THEN "Invalid payer"
                     ELSE IF transfer = "reverts" THEN "transferFrom reverted"
                     ELSE IF transfer = "false" THEN "USDC transfer failed"
                     ELSE "none"
       IN  /\ invoiceCall' = Call("pay", _payer, revert)
           /\ IF revert = "none"
              THEN /\ payer' = _payer
                   /\ paid' = TRUE
                   /\ paidAt' = blockTime
                   /\ invoiceBalance' = invoiceBalance + invoiceAmount
              ELSE UNCHANGED <<payer, paid, paidAt, invoiceBalance>>
    /\ UNCHANGED <<merchant, invoiceAmount, blockTime>>

\* withdrawTo(to) called by sender; transfer is the outcome of transfer
withdrawTo(sender, to, transfer) ==
    /\ merchant # ZeroAddress
    /\ LET revert == IF sender # merchant THEN "Only merchant"
                     ELSE IF ~paid THEN "Invoice not paid"
                     ELSE IF invoiceBalance = 0 THEN "No USDC to withdraw"
                     ELSE IF transfer = "reverts" THEN "transfer reverted"
                     ELSE IF transfer = "false" THEN "Withdraw failed"
                     ELSE "none"
       IN  /\ invoiceCall' = Call("withdrawTo", to, revert)
           /\ invoiceBalance' = IF revert = "none" THEN 0 ELSE invoiceBalance
    /\ UNCHANGED <<merchant, payer, invoiceAmount, paid, paidAt, blockTime>>

\* a later block is mined
mineBlock ==
    /\ blockTime < MaxTime
    /\ blockTime' = blockTime + 1
    /\ UNCHANGED <<merchant, payer, invoiceAmount, paid, paidAt, invoiceBalance,
                   invoiceCall>>

(***************************************************************************)
(* Specifications                                                          *)
(***************************************************************************)
vars == <<responses, plan, lzState, bpc, reqAmount, available, balanceRead,
          submitted, confirmed, reverted, msg, polls, lastAnswer, pendingBefore, attempts,
          attestation, bresult, opc, oreq, idx, feasible, quotes, sent, results, oresp,
          deadlineHit, qreq, qfee, qres, dpc, dreq, di, dsim, dquotes,
          mpc, messageIds, lookups, messages, completed, pending, failed,
          merchant, payer, invoiceAmount, paid, paidAt, invoiceBalance, blockTime,
          invoiceCall>>

Init == AllocInit /\ BridgeIdle /\ OrchIdle /\ QuoteInit /\ DispatchQuoteInit /\ MonitorInit
        /\ InvoiceInit

\* _getCmd: the read request hands the same _usdcAmount to the fetcher of
\* every chain, so every response of one read carries the same usdcAmount
fromSameRead(r) ==
    IF responses = <<>> THEN TRUE ELSE r.usdcAmount = responses[1].usdcAmount

\* the variables of the read-only services
readVars == <<quoteVars, dispatchQuoteVars, monitorVars>>

\* the reducer alone
NextAlloc ==
    \/ \E r \in BalanceData :
          fromSameRead(r) /\ lzMap(r) /\ UNCHANGED <<bridgeVars, orchVars, clockVars, readVars, invoiceVars>>
    \/ lzReduce /\ UNCHANGED <<bridgeVars, orchVars, clockVars, readVars, invoiceVars>>

SpecAlloc == Init /\ [][NextAlloc]_vars

\* lzReduce is external and pure: it decodes whatever responses it is handed,
\* and nothing in it compares their usdcAmount fields.  Chains with an empty
\* balance and a threshold of at most one unit are enough to tell which of
\* the amounts is distributed.
AnyAmountData == {r \in BalanceData : r.balance = 0 /\ r.minThreshold <= 1}

\* the reducer alone, on responses that need not come from one read
NextAllocDirect ==
    \/ \E r \in AnyAmountData :
          lzMap(r) /\ UNCHANGED <<bridgeVars, orchVars, clockVars, readVars, invoiceVars>>
    \/ lzReduce /\ UNCHANGED <<bridgeVars, orchVars, clockVars, readVars, invoiceVars>>

SpecAllocDirect == Init /\ [][NextAllocDirect]_vars

\* CircleWalletService.bridgeUSDC, called while the orchestrator is idle
NextWallet ==
    \/ /\ opc = "idle"
       /\ \E a \in 1..MaxAmount, bal \in 0..MaxBalance :
             bridgeUSDC(a, bal) /\ UNCHANGED <<allocVars, orchVars, clockVars, readVars, invoiceVars>>
    \/ \E f \in BOOLEAN, l \in BOOLEAN :
          checkUSDCBalance(f, l) /\ UNCHANGED <<allocVars, orchVars, clockVars, readVars, invoiceVars>>
    \/ \E ok \in BOOLEAN : approveUSDC(ok) /\ UNCHANGED <<allocVars, orchVars, clockVars, readVars, invoiceVars>>
    \/ \E st \in TxStates :
          /\ waitForTransactionConfirmation("approve", "w_approve_wait", "w_burn", st)
          /\ UNCHANGED <<allocVars, orchVars, clockVars, readVars, invoiceVars>>
    \/ \E ok \in BOOLEAN : depositForBurn(ok) /\ UNCHANGED <<allocVars, orchVars, clockVars, readVars, invoiceVars>>
    \/ \E st \in TxStates :
          /\ waitForTransactionConfirmation("burn", "w_burn_wait", "w_extract", st)
          /\ UNCHANGED <<allocVars, orchVars, clockVars, readVars, invoiceVars>>
    \/ \E found \in BOOLEAN :
          extractMessageFromTransaction(found) /\ UNCHANGED <<allocVars, orchVars, clockVars, readVars, invoiceVars>>
    \/ \E ans \in AttestationAnswers :
          fetchAttestation(ans) /\ UNCHANGED <<allocVars, orchVars, clockVars, readVars, invoiceVars>>
    \/ \E ok \in BOOLEAN : mintUSDC(ok) /\ UNCHANGED <<allocVars, orchVars, clockVars, readVars, invoiceVars>>

\* the orchestrator and the bridge executions it runs, called while
\* CircleWalletService is idle
NextDispatch ==
    \/ /\ opc = "idle" /\ bpc = "idle"
       /\ \E r \in Requests("executeDispatch") : executeDispatch(r) /\ UNCHANGED <<allocVars, clockVars, readVars, invoiceVars>>
    \/ /\ opc = "idle" /\ bpc = "idle"
       /\ \E r \in Requests("simulateDispatch") : simulateDispatch(r) /\ UNCHANGED <<allocVars, clockVars, readVars, invoiceVars>>
    \/ simulateDispatchQuote /\ UNCHANGED <<allocVars, clockVars, readVars, invoiceVars>>
    \/ simulateDispatchEnd /\ UNCHANGED <<allocVars, clockVars, readVars, invoiceVars>>
    \/ executeDispatchSkip /\ UNCHANGED <<allocVars, clockVars, readVars, invoiceVars>>
    \/ executeDispatchCollect /\ UNCHANGED <<allocVars, clockVars, readVars, invoiceVars>>
    \/ executeDispatchReturn /\ UNCHANGED <<allocVars, clockVars, readVars, invoiceVars>>
    \/ /\ opc = "idle" /\ bpc = "idle"
       /\ \E r \in Requests("executeDispatchPlan") : executeDispatchPlan(r) /\ UNCHANGED <<allocVars, clockVars, readVars, invoiceVars>>
    \/ getDispatchQuotes /\ UNCHANGED <<allocVars, clockVars, readVars, invoiceVars>>
    \/ getDispatchQuotesEnd /\ UNCHANGED <<allocVars, clockVars, readVars, invoiceVars>>
    \/ executeDispatchPlanSkip /\ UNCHANGED <<allocVars, clockVars, readVars, invoiceVars>>
    \/ executeDispatchPlanCollect /\ UNCHANGED <<allocVars, clockVars, readVars, invoiceVars>>
    \/ executeDispatchPlanReturn /\ UNCHANGED <<allocVars, clockVars, readVars, invoiceVars>>
    \/ \E bal \in 0..MaxBalance : bridge(bal) /\ UNCHANGED <<allocVars, clockVars, readVars, invoiceVars>>
    \/ \E feeOk \in BOOLEAN : simulateBridge(feeOk) /\ UNCHANGED <<allocVars, clockVars, readVars, invoiceVars>>
    \/ \E ok \in BOOLEAN : approveTokens(ok) /\ UNCHANGED <<allocVars, clockVars, readVars, invoiceVars>>
    \/ \E ok \in BOOLEAN : approveTokensWait(ok) /\ UNCHANGED <<allocVars, clockVars, readVars, invoiceVars>>
    \/ \E ok \in BOOLEAN : executeDepositForBurn(ok) /\ UNCHANGED <<allocVars, clockVars, readVars, invoiceVars>>
    \/ \E ok \in BOOLEAN, found \in BOOLEAN :
          executeDepositForBurnWait(ok, found) /\ UNCHANGED <<allocVars, clockVars, readVars, invoiceVars>>
    \/ \E ans \in AttestationAnswers : waitForAttestation(ans) /\ UNCHANGED <<allocVars, clockVars, readVars, invoiceVars>>

\* CircleService.bridgeUSDC of circle.ts, called while the orchestrator is
\* idle
NextCircle ==
    \/ /\ opc = "idle"
       /\ \E a \in 1..MaxAmount, bal \in 0..MaxBalance :
             circleBridgeUSDC(a, bal) /\ UNCHANGED <<allocVars, orchVars, clockVars, readVars, invoiceVars>>
    \/ \E ok \in BOOLEAN :
          /\ circleSend("approve", "l_approve", "l_approve_wait", ok)
          /\ UNCHANGED <<allocVars, orchVars, clockVars, readVars, invoiceVars>>
    \/ \E ok \in BOOLEAN : circleApproveWait(ok) /\ UNCHANGED <<allocVars, orchVars, clockVars, readVars, invoiceVars>>
    \/ \E ok \in BOOLEAN :
          /\ circleSend("burn", "l_burn", "l_burn_wait", ok)
          /\ UNCHANGED <<allocVars, orchVars, clockVars, readVars, invoiceVars>>
    \/ \E ok \in BOOLEAN, found \in BOOLEAN :
          circleBurnWait(ok, found) /\ UNCHANGED <<allocVars, orchVars, clockVars, readVars, invoiceVars>>
    \/ \E ans \in AttestationAnswers :
          circlePoll(ans) /\ UNCHANGED <<allocVars, orchVars, clockVars, readVars, invoiceVars>>

\* the three bridge services and the orchestrator
NextBridge == NextWallet \/ NextCircle \/ NextDispatch

SpecBridge == Init /\ [][NextBridge]_vars

\* the orchestrator serving a request that carries a timeout
NextDeadline ==
    \/ NextDispatch
    \/ deadlinePasses /\ UNCHANGED <<allocVars, readVars, invoiceVars>>

SpecDeadline == Init /\ [][NextDeadline]_vars

\* the read-only services, called by a client at any time
NextRead ==
    \/ /\ dpc = "idle" /\ mpc = "idle"
       /\ \E r \in QuoteRequests, fee \in FeeReads :
             /\ getQuote(r, fee)
             /\ UNCHANGED <<dispatchQuoteVars, monitorVars>>
             /\ UNCHANGED <<allocVars, bridgeVars, orchVars, clockVars, invoiceVars>>
    \/ /\ dpc = "idle" /\ mpc = "idle"
       /\ \E p \in QuotePlans :
             /\ integratedGetDispatchQuotes(p)
             /\ UNCHANGED monitorVars
             /\ UNCHANGED <<allocVars, bridgeVars, orchVars, clockVars, invoiceVars>>
    \/ \E fee \in FeeReads :
          /\ integratedSimulateDispatch(fee)
          /\ UNCHANGED <<quoteVars, monitorVars>>
          /\ UNCHANGED <<allocVars, bridgeVars, orchVars, clockVars, invoiceVars>>
    \/ /\ integratedGetDispatchQuotesReturn
       /\ UNCHANGED <<quoteVars, monitorVars>>
       /\ UNCHANGED <<allocVars, bridgeVars, orchVars, clockVars, invoiceVars>>
    \/ /\ dpc = "idle" /\ mpc = "idle"
       /\ \E ids \in MessageIdLists :
             /\ monitorDispatch(ids)
             /\ UNCHANGED dispatchQuoteVars
             /\ UNCHANGED <<allocVars, bridgeVars, orchVars, clockVars, invoiceVars>>
    \/ \E lookup \in Lookups :
          /\ monitorDispatchStep(lookup)
          /\ UNCHANGED <<quoteVars, dispatchQuoteVars>>
          /\ UNCHANGED <<allocVars, bridgeVars, orchVars, clockVars, invoiceVars>>
    \/ /\ monitorDispatchReturn
       /\ UNCHANGED <<quoteVars, dispatchQuoteVars>>
       /\ UNCHANGED <<allocVars, bridgeVars, orchVars, clockVars, invoiceVars>>

SpecRead == Init /\ [][NextRead]_vars

\* the transactions sent to the invoice and the blocks mined
NextInvoice ==
    \/ \E sender \in Addresses, a \in 0..MaxEntryAmount :
          /\ createInvoice(sender, a)
          /\ UNCHANGED <<allocVars, bridgeVars, orchVars, clockVars, readVars>>
    \/ \E p \in Addresses, t \in TransferOutcomes :
          /\ pay(p, t)
          /\ UNCHANGED <<allocVars, bridgeVars, orchVars, clockVars, readVars>>
    \/ \E sender \in Addresses, to \in Addresses, t \in TransferOutcomes :
          /\ withdrawTo(sender, to, t)
          /\ UNCHANGED <<allocVars, bridgeVars, orchVars, clockVars, readVars>>
    \/ mineBlock /\ UNCHANGED <<allocVars, bridgeVars, orchVars, clockVars, readVars>>

SpecInvoice == Init /\ [][NextInvoice]_vars

(***************************************************************************)
(* Properties of lzReduce (SpecAlloc)                                      *)
(***************************************************************************)
\* the properties below are about calls in which every response carries the
\* same usdcAmount, as the responses built from one read request do: that
\* amount is totalAmount
n == Len(responses)
totalAmount == responses[1].usdcAmount
sameAmount == \A i \in 1..n : responses[i].usdcAmount = totalAmount
deficit(i) ==
    IF responses[i].balance < responses[i].minThreshold
    THEN responses[i].minThreshold - responses[i].balance ELSE 0
underCount == Cardinality({i \in 1..n : deficit(i) > 0})
deficits == SumSeq([i \in 1..n |-> deficit(i)])
returned == lzState = "returned" /\ sameAmount

\* C1: conservation, the plan returned by lzReduce sums to exactly
\* totalAmount, for every n >= 1, in each of the four branches.
C1_Conservation == returned => SumSeq(plan) = totalAmount

\* C2: single-deficit routing, when exactly one chain is under its threshold
\* its plan entry is totalAmount and every other entry is 0, whatever the
\* size of the deficit.
C2_SingleDeficitRouting ==
    (returned /\ underCount = 1) =>
        \A i \in 1..n : plan[i] = IF deficit(i) > 0 THEN totalAmount ELSE 0

\* a single chain is under threshold, by less than the amount, among several
C2_Witness ==
    /\ returned /\ underCount = 1 /\ n = 3
    /\ \E i \in 1..n : deficit(i) > 0 /\ deficit(i) < totalAmount /\ plan[i] = totalAmount

\* C3: no-deficit equal split, when no chain is under threshold every entry
\* is floor(totalAmount / n), plus one unit for the indices below
\* totalAmount % n; entries differ by at most 1 and the larger ones come
\* first.
C3_EqualSplit ==
    (returned /\ underCount = 0) =>
        /\ \A i \in 1..n : plan[i] = (totalAmount \div n)
                               + (IF (i - 1) < totalAmount % n THEN 1 ELSE 0)
        /\ \A i, j \in 1..n : plan[i] - plan[j] <= 1
        /\ \A i, j \in 1..n : i < j => plan[i] >= plan[j]

\* an equal split of an amount that n = 3 does not divide
C3_Witness ==
    /\ returned /\ underCount = 0 /\ n = 3 /\ totalAmount % n = 2
    /\ plan[1] = plan[3] + 1 /\ plan[2] = plan[3] + 1

\* C4: sufficient multi-deficit allocation, with several chains under
\* threshold and totalAmount >= totalDeficit every entry is its deficit plus
\* an equal share of the surplus, spread over all n chains with the extra
\* units on the lowest indices.
C4_SufficientFill ==
    (returned /\ underCount > 1 /\ totalAmount >= deficits) =>
        LET surplus == totalAmount - deficits
            base == surplus \div n
            rem == surplus % n
        IN  \A i \in 1..n : plan[i] = deficit(i) + base + (IF (i - 1) < rem THEN 1 ELSE 0)

\* deficits filled with a surplus left, of which a chain that is not under
\* threshold gets a unit
C4_Witness ==
    /\ returned /\ underCount > 1 /\ totalAmount > deficits /\ n = 3
    /\ \E i \in 1..n : deficit(i) = 0 /\ plan[i] > 0

\* C5: insufficient multi-deficit allocation, with several chains under
\* threshold and totalAmount < totalDeficit each deficient chain first gets
\* floor(totalAmount * deficit / totalDeficit), the others 0, and the
\* leftover is handed out one unit at a time to the entries > 0 in index
\* order until it is exhausted: it is 0 when lzReduce returns.
C5_InsufficientProportional ==
    (returned /\ underCount > 1 /\ totalAmount < deficits) =>
        LET share(i) == (totalAmount * deficit(i)) \div deficits
            leftover == totalAmount - SumSeq([i \in 1..n |-> share(i)])
            before(i) == Cardinality({j \in 1..(i - 1) : share(j) > 0})
        IN  /\ \A i \in 1..n :
                 plan[i] = share(i)
                     + (IF share(i) > 0 /\ before(i) < leftover THEN 1 ELSE 0)
            /\ totalAmount - SumSeq(plan) = 0

(***************************************************************************)
(* Properties of the bridge executions and of the orchestrator (SpecBridge) *)
(***************************************************************************)

\* the request being served is a dry run or a simulation
isDryRun ==
    \/ oreq.entry = "simulateDispatch"
    \/ oreq.entry \in {"executeDispatch", "executeDispatchPlan"} /\ oreq.dryRun

\* C6: dry-run has no side effects, a request with dryRun == true (and
\* simulateDispatch) never submits an approve, a depositForBurn or a mint
\* transaction for any entry of the plan.
C6_DryRunNoSideEffects == isDryRun => (sent = <<>> /\ submitted = <<>>)

\* a dry run of executeDispatch, with a key and a supported chain, that has
\* returned after quoting an entry > 0
C6_Witness ==
    /\ oresp.done /\ oresp.success
    /\ oreq.entry = "executeDispatch" /\ oreq.dryRun /\ oreq.hasKey
    /\ Len(oresp.dispatches) = Len(oreq.dispatchPlan)
    /\ quotes # <<>>

\* C7: phase order within one bridge execution, the burn is never submitted
\* before the approve is confirmed, the attestation is never requested
\* before the burn is confirmed and its message hash extracted, the mint is
\* never submitted before an attestation signature is held.
C7_PhaseOrder ==
    /\ InSeq("burn", submitted) => "approve" \in confirmed
    /\ polls > 0 => ("burn" \in confirmed /\ msg = "extracted")
    /\ InSeq("mint", submitted) => attestation = "signature"

\* C8: an execution is reported successful only after the mint transaction
\* has been submitted with the message and the attestation and its
\* confirmation has been observed.
C8_SuccessOnlyAfterMint ==
    (bresult.done /\ bresult.success /\ ~isDryRun) =>
        /\ attestation = "signature"
        /\ InSeq("mint", submitted)
        /\ "mint" \in confirmed

\* C9: balance fast-fail, every execution first reads the sender's balance
\* and, if available < amount, fails with an insufficient-balance error
\* before any approve, burn or mint transaction is submitted.
C9_BalanceFastFail ==
    /\ submitted # <<>> => (balanceRead /\ available >= reqAmount)
    /\ (balanceRead /\ available < reqAmount) =>
           bresult = Failure("Insufficient USDC balance")

\* C10: a missing burn event is fatal, when the logs of the confirmed burn
\* hold no MessageSent event the execution fails with a burn error and never
\* requests an attestation nor submits a mint.
C10_MissingBurnEventFatal ==
    msg \in {"missing", "placeholder"} =>
        /\ polls = 0
        /\ ~InSeq("mint", submitted)
        /\ bresult.done => bresult = Failure("MessageSent event not found")

(***************************************************************************)
(* Properties of the attestation wait (SpecBridge)                         *)
(***************************************************************************)
\* the execution has ended with a failure
failedExecution == bpc = "returned" /\ bresult.done /\ ~bresult.success

\* C11: attestation status 'failed' is terminal, as soon as one poll
\* returns the status failed the waiter stops polling and propagates a
\* failure, even when attempts remain.
C11_FailedIsTerminal == lastAnswer = "failed" => failedExecution

\* the waiter is in its polling loop
polling == bpc \in {"w_attest", "c_attest", "l_poll"}

\* maxAttempts of the waiter of the execution in progress: retryAttempts for
\* the executions run by the orchestrator, 60 for fetchAttestation
maxAttempts == IF opc = "bridging" THEN RetryAttempts ELSE WalletMaxAttempts

\* the answers that say "not yet": a pending status or a 404
NotYet == PendingAnswers \cup {"404"}

\* C12: bounded polling, a pending status and a 404 each consume one attempt,
\* the waiter never makes more than maxAttempts polls, and a wait in which no
\* poll returned complete ends with a timeout error, when the attempts are
\* exhausted.
C12_BoundedPolling ==
    /\ polls <= maxAttempts
    /\ (polling /\ lastAnswer \in NotYet) => attempts = polls
    /\ (bresult.done /\ lastAnswer \in NotYet) =>
           /\ polls = maxAttempts
           /\ bresult \in {Failure("Attestation timeout"),
                           Failure("Failed to get attestation")}

\* every answer of the attestation endpoint so far was a pending status
onlyPendingSeen == polls > 0 /\ pendingBefore /\ lastAnswer \in PendingAnswers

\* C13: with an endpoint that answers pending on the first 5 polls and
\* complete on the 6th, an execution run by the orchestrator with its default
\* configuration neither mints nor reports success while only pending
\* answers have been seen, and does not give up before the 6th poll.
C13_SixthPollCompletes ==
    (opc = "bridging" /\ onlyPendingSeen /\ polls <= 5) =>
        /\ ~bresult.done
        /\ ~InSeq("mint", submitted)

(***************************************************************************)
(* Properties of the dispatch orchestrator (SpecBridge)                    *)
(***************************************************************************)
thePlan == oreq.dispatchPlan
planSum == SumSeq([k \in 1..Len(thePlan) |-> thePlan[k].amount])
executing == oreq.entry \in {"executeDispatch", "executeDispatchPlan"}

\* C14: executeDispatch validates the request before anything else, a
\* request whose arrays differ in length or whose plan amounts do not sum to
\* more than 0 is rejected before any quote read or transaction, for a dry
\* run as well as for a real run.
C14_ValidationFirst ==
    (executing /\ (~oreq.lengthsOk \/ planSum = 0)) =>
        /\ quotes = <<>> /\ sent = <<>>
        /\ oresp.done => (~oresp.success /\ oresp.dispatches = <<>>)

\* the call has returned a result built by the loop over the plan
executed == executing /\ ~oreq.dryRun /\ oresp.done
            /\ oresp.error \in {"none", "dispatches not completed"}

\* the dispatches of the result that are about the plan entry k
dispatchesOf(k) == {j \in 1..Len(oresp.dispatches) : oresp.dispatches[j].chain = k}

\* the transactions sent and the quotes read for the plan entry k
sentFor(k) == {j \in 1..Len(sent) : sent[j][1] = k}
quotedFor(k) == {j \in 1..Len(quotes) : quotes[j] = k}

Completed == {"completed", "COMPLETED"}

\* C15: in a non-dry-run executeDispatch every entry with amount 0 is in the
\* result, marked completed with zero amount, and causes no quote and no
\* transaction; every entry > 0 is executed exactly once; the result has one
\* entry per plan entry.
C15_ZeroEntriesCompleted ==
    executed =>
        /\ Len(oresp.dispatches) = Len(thePlan)
        /\ \A k \in 1..Len(thePlan) :
              /\ Cardinality(dispatchesOf(k)) = 1
              /\ thePlan[k].amount = 0 =>
                    /\ \A j \in dispatchesOf(k) :
                          /\ oresp.dispatches[j].status \in Completed
                          /\ oresp.dispatches[j].amount = 0
                    /\ sentFor(k) = {} /\ quotedFor(k) = {}

\* C16: partial-batch independence, the batch is never failed as a whole: a
\* problem with one entry is reported for that entry only and every other
\* entry > 0 is still executed and individually reported.
C16_PartialBatchIndependence ==
    (executing /\ ~oreq.dryRun /\ oreq.lengthsOk /\ oresp.done) =>
        \A k \in 1..Len(thePlan) :
            (thePlan[k].amount > 0 /\ thePlan[k].chainOk) =>
                \E j \in dispatchesOf(k) :
                    oresp.dispatches[j].error # "Simulation failed"

\* the plan entry k reached the successful terminal state its bridge
\* execution reports
reachedSuccess(k) ==
    \E j \in dispatchesOf(k) : oresp.dispatches[j].status \in Completed

C18_DryRunEntriesPending ==
    (executing /\ oreq.dryRun /\ oresp.done /\ oresp.error = "none") =>
        /\ Len(oresp.dispatches) = Len(thePlan)
        /\ \A j \in 1..Len(oresp.dispatches) :
              oresp.dispatches[j].status \in {"pending", "simulated"}

(***************************************************************************)
(* Properties of the error handling (SpecBridge)                           *)
(***************************************************************************)
OnChainSteps == {"approve", "burn", "mint"}

\* how many times the transaction tx was submitted in this execution
timesSubmitted(tx) == Cardinality({i \in 1..Len(submitted) : submitted[i] = tx})

\* the errors with which the attestation phase fails
AttestationErrors == {"Attestation timeout", "Failed to get attestation",
                      "Attestation request failed"}

C20_TransientErrorsRetried ==
    /\ (polls > 0 /\ lastAnswer = "error" /\ polls < maxAttempts) => ~bresult.done
    /\ bresult.error = "Transaction not found" => attempts + 1 >= WalletMaxAttempts

(***************************************************************************)
(* Properties of the deadline (SpecDeadline) and of the failure reports    *)
(* (SpecBridge)                                                            *)
(***************************************************************************)
\* C21: the deadline of the caller (request.timeout) bounds the orchestrated
\* execution, a bridge execution that was pending when the deadline was hit is
\* reported FAILED with a timeout reason, by bridge and in the result of
\* executeDispatch.
C21_DeadlineBoundsExecution ==
    /\ (deadlineHit > 0 /\ opc = "bridging" /\ idx = deadlineHit /\ bresult.done) =>
           bresult = Failure("timeout")
    /\ (deadlineHit > 0 /\ oresp.done) =>
           \A j \in dispatchesOf(deadlineHit) :
               /\ oresp.dispatches[j].status = "FAILED"
               /\ oresp.dispatches[j].error = "timeout"

\* what a failed CCTPBridgeResponse holds besides the free text of error:
\* the catch block of bridge returns { success: false, status: FAILED, error }
machineCheckable(r) == [success |-> r.success, status |-> r.status]

\* the attestation phase of the execution failed after its burn was confirmed
attestationFailedAfterBurn ==
    /\ failedExecution
    /\ "burn" \in confirmed
    /\ polls > 0
    /\ attestation = "none"

\* C22: every failed bridge execution records its phase and a
\* machine-checkable error kind, so that a failure whose machine-checkable
\* content is the one of an attestation timeout is an attestation timeout
\* after a confirmed burn, and no other failure.
C22_FailureKind ==
    (failedExecution
        /\ machineCheckable(bresult) = machineCheckable(Failure("Attestation timeout")))
      => attestationFailedAfterBurn

(***************************************************************************)
(* Properties of the read-only services (SpecRead)                         *)
(***************************************************************************)
\* C23: quote estimation is advisory and total for supported chains,
\* getQuote returns a quote with bridgeFee 0 and totalFee = gasFee; when the
\* read of the live fee data fails the quote carries the static default
\* estimate; no transaction is submitted and no execution is started.
C23_QuoteTotal ==
    (qres.done /\ supported(qreq.fromChain) /\ supported(qreq.toChain)) =>
        /\ ~qres.thrown
        /\ qres.bridgeFee = 0
        /\ qres.totalFee = qres.gasFee
        /\ qfee = FeeReadFails => qres.gasFee = DefaultGasFee
        /\ qfee \in 1..MaxGasPrice => qres.gasFee = qfee * DefaultGasLimit
        /\ submitted = <<>> /\ sent = <<>> /\ bpc = "idle" /\ opc = "idle"

\* a quote between supported chains for which the read of the fee data failed
C23_Witness ==
    /\ qres.done /\ ~qres.thrown
    /\ supported(qreq.fromChain) /\ supported(qreq.toChain)
    /\ qfee = FeeReadFails
    /\ qres.totalFee = DefaultGasFee

(***************************************************************************)
(* Properties of the Invoice contract (SpecInvoice)                        *)
(***************************************************************************)
\* C24: an invoice can be paid at most once, once paid every pay call reverts
\* with 'Already paid' and leaves payer, paid and paidAt unchanged; paid never
\* goes back to false and paidAt > 0 whenever paid is true.
C24_PaidOnce ==
    /\ [](paid => paidAt > 0)
    /\ [][paid =>
            /\ paid' /\ payer' = payer /\ paidAt' = paidAt
            /\ (invoiceCall' # invoiceCall /\ invoiceCall'.fn = "pay") =>
                   invoiceCall'.revert = "Already paid"
            /\ invoiceCall'.fn = "pay" => invoiceBalance' = invoiceBalance]_vars

\* a paid invoice on which a pay for another payer, in a later block, has
\* reverted
C24_Witness ==
    /\ paid /\ paidAt > 0 /\ blockTime > paidAt
    /\ invoiceCall = Call("pay", invoiceCall.arg, "Already paid")
    /\ invoiceCall.arg \notin {payer, ZeroAddress}

(***************************************************************************)
(* Further properties of lzReduce (SpecAlloc)                              *)
(***************************************************************************)
\* the proportional share of chain i in the insufficient branch
share(i) == (totalAmount * deficit(i)) \div deficits

\* C25: starvation in the insufficient branch, with several chains under
\* threshold and totalAmount < totalDeficit a deficient chain whose
\* proportional share is 0 receives 0 in the final plan, the leftover units
\* going only to entries that are already > 0.
C25_Starvation ==
    (returned /\ underCount > 1 /\ totalAmount < deficits) =>
        \A i \in 1..n : (deficit(i) > 0 /\ share(i) = 0) => plan[i] = 0

\* the first chain is deficient and gets nothing, while a later chain got
\* its share and the leftover unit
C25_Witness ==
    /\ returned /\ underCount > 1 /\ totalAmount < deficits
    /\ deficit(1) > 0 /\ share(1) = 0 /\ plan[1] = 0
    /\ \E j \in 2..n : plan[j] > share(j)

\* the responses rs with the usdcAmount a in each of them
withAmount(rs, a) == [i \in 1..Len(rs) |-> [rs[i] EXCEPT !.usdcAmount = a]]

\* C26: lzReduce takes the amount to distribute from the first response,
\* when the responses carry different usdcAmount values the plan is the one
\* computed for the usdcAmount of the first of them.
C26_FirstResponseAmount ==
    lzState = "returned" =>
        plan = lzReducePlan(withAmount(responses, responses[1].usdcAmount))

\* the entries of the request with amount > 0, in plan order
nonZeroEntries == SelectSeq(dreq, LAMBDA e : e.amount > 0)

\* C27: getDispatchQuotes returns exactly one quote per plan entry with
\* amount > 0, in plan order, and the k-th quote carries the target chain,
\* the amount and the fees of the k-th such entry, also when a target chain
\* occurs in several entries.
C27_QuotePerEntry ==
    dpc = "returned" =>
        /\ Len(dquotes) = Len(nonZeroEntries)
        /\ \A k \in 1..Len(dquotes) :
              /\ dquotes[k].toChain = nonZeroEntries[k].chain
              /\ dquotes[k].amount = nonZeroEntries[k].amount
              /\ dquotes[k].totalFee = dsim[k].fees

\* C28: threshold satisfaction, whenever totalAmount >= totalDeficit the
\* plan returned by lzReduce brings every chain to its threshold:
\* balance[i] + plan[i] >= minThreshold[i], in every branch.
C28_ThresholdsMet ==
    (returned /\ totalAmount >= deficits) =>
        \A i \in 1..n : responses[i].balance + plan[i] >= responses[i].minThreshold

\* several chains under threshold, with different deficits, and exactly the
\* amount that fills them
C28_Witness ==
    /\ returned /\ underCount > 1 /\ totalAmount = deficits
    /\ \E i, j \in 1..n : deficit(i) > deficit(j) /\ deficit(j) > 0
    /\ \A i \in 1..n : responses[i].balance + plan[i] >= responses[i].minThreshold

\* C29: no overfill when funds are short, with several chains under
\* threshold and totalAmount < totalDeficit every deficient chain gets at
\* most its own deficit and every chain that is not under threshold gets 0.
C29_NoOverfill ==
    (returned /\ underCount > 1 /\ totalAmount < deficits) =>
        \A i \in 1..n : plan[i] <= deficit(i)

\* three chains of which two are deficient; one of these is filled to its
\* threshold by its share and a leftover unit, the chain that is not under
\* threshold gets nothing
C29_Witness ==
    /\ returned /\ underCount = 2 /\ n = 3 /\ totalAmount < deficits
    /\ \E i \in 1..n : deficit(i) > 0 /\ plan[i] = deficit(i) /\ plan[i] > share(i)
    /\ \E i \in 1..n : deficit(i) = 0 /\ plan[i] = 0

\* C30: monitorDispatch returns exactly one message record per input id, in
\* input order, and completed + pending + failed is the number of input ids,
\* whatever the status lookups met; it changes no dispatch state.
C30_MonitorTotals ==
    /\ mpc \in {"loop", "returned"} =>
          /\ Len(messages) = Len(lookups)
          /\ completed + pending + failed = Len(messages)
          /\ opc = "idle" /\ bpc = "idle" /\ sent = <<>>
    /\ mpc = "returned" =>
          /\ Len(messages) = Len(messageIds)
          /\ \A k \in 1..Len(messageIds) : messages[k].messageId = messageIds[k]

\* the same id asked twice: its first lookup threw and the second found a
\* message without status
C30_Witness ==
    /\ mpc = "returned"
    /\ Len(messageIds) = 2 /\ messageIds[1] = messageIds[2]
    /\ lookups = <<"throws", "undefined">>
    /\ pending = 1 /\ failed = 1 /\ completed = 0

====
